---- MODULE Spec2Model ----
(***************************************************************************)
(* Model of src/index.ts (figma-import-svgs): the FigmaService client, the *)
(* import pipeline and the entry point main.                               *)
(*                                                                         *)
(* Strings that the code inspects character by character (the token, the   *)
(* nodeId, node identifiers) are sequences of one-character strings, so    *)
(* that startsWith and replaceAll are computed and not assumed.  An absent *)
(* (undefined) string input and the empty string are both <<>>: every test *)
(* the code applies to them is a truthiness test, which cannot tell them   *)
(* apart.  Console output is not modelled, but reading the arguments of a  *)
(* console call is.  The optional version input only adds a query          *)
(* parameter to the two API URLs.                                          *)
(*                                                                         *)
(* The file declares FigmaService and main twice; the model follows the    *)
(* first declarations (lines 1-247), which take a nodeId.  The second ones *)
(* (lines 249-437) are an earlier form without nodeId.                     *)
(***************************************************************************)
EXTENDS Integers, Sequences, FiniteSets, TLC

(***************************************************************************)
(* Bounds of the explored inputs.                                          *)
(***************************************************************************)
\* Largest number of nodes below the document root in a fetched document.
MaxNodes == 2

(***************************************************************************)
(* Input domains.                                                          *)
(***************************************************************************)
RootId == <<"0", ":", "0">>
IdA == <<"1", ":", "2">>
IdB == <<"1", "-", "2">>

\* Identifiers that nodes below the root and registry keys may carry.
Ids == {IdA, IdB}

\* Kinds of the nodes below the document root.
NodeTypes == {"FRAME", "COMPONENT"}

\* Display names of components.
Names == {"Icon", "Logo"}

FileIds == {<<>>, <<"a", "b", "c">>}

Tokens == {<<>>, <<"f", "i", "g", "d", "_", "x">>, <<"a", "b", "c">>}

NodeIdInputs == {<<>>, IdA, IdB, <<"0", "-", "0">>}

Versions == {<<>>, <<"7">>}

(***************************************************************************)
(* Values standing for JavaScript's undefined in the places the code can   *)
(* meet it.                                                                *)
(***************************************************************************)
Undefined == [undefined |-> TRUE]

NoData == [nodata |-> TRUE]

NoError == [noerror |-> TRUE]

NoResult == [noresult |-> TRUE]

NoEarlier == [noearlier |-> TRUE]

NoResponse == [pending |-> TRUE]

(***************************************************************************)
(* Documents: every ordered tree of at most MaxNodes nodes below a root of *)
(* kind DOCUMENT.  Identifiers may repeat: the code does not rely on their *)
(* uniqueness, it takes the first match and de-duplicates.                 *)
(***************************************************************************)
RECURSIVE TreesOfSize(_)
RECURSIVE ForestsOfSize(_)
TreesOfSize(k) ==
    { [id |-> i, type |-> t, children |-> f] :
        i \in Ids, t \in NodeTypes, f \in ForestsOfSize(k - 1) }

ForestsOfSize(m) ==
    IF m = 0 THEN {<<>>}
    ELSE UNION { { <<t>> \o f : t \in TreesOfSize(k), f \in ForestsOfSize(m - k) } :
                 k \in 1..m }

Documents ==
    { [id |-> RootId, type |-> "DOCUMENT", children |-> f] :
        f \in UNION { ForestsOfSize(m) : m \in 0..MaxNodes } }

(***************************************************************************)
(* Component registries: a JavaScript object keyed by node identifier, as  *)
(* the sequence of its entries in property order.  The code only compares  *)
(* names with one another, so the first entry is always called "Icon" and  *)
(* a second one shares that name or has the other one.                     *)
(***************************************************************************)
RegistryKeyOrders ==
    { <<>> } \cup { <<i>> : i \in Ids }
             \cup { <<i, j>> : <<i, j>> \in { p \in Ids \X Ids : p[1] # p[2] } }

Registries ==
    UNION { { [n \in 1..Len(ks) |-> [id |-> ks[n], component |-> [name |-> nm[n]]]] :
                nm \in { f \in [1..Len(ks) -> Names] :
                           Len(ks) > 0 => f[1] = "Icon" } } : ks \in RegistryKeyOrders }

\* A file response body: the components field may be missing altogether.
FileSnapshots ==
    { [document |-> d, components |-> r] : d \in Documents, r \in Registries }
      \cup { [document |-> d] : d \in Documents }

\* The {status, err} body of a non-success API response, or a body that is
\* not the JSON of an object.
ErrorBodies ==
    { [parses |-> TRUE, json |-> [status |-> 403, err |-> "Forbidden"]],
      [parses |-> TRUE, json |-> [status |-> 500, err |-> ""]],
      [parses |-> TRUE, json |-> [status |-> 500]],
      [parses |-> FALSE] }

(***************************************************************************)
(* JavaScript helpers.                                                     *)
(***************************************************************************)
\* String.prototype.startsWith
startsWith(s, prefix) ==
    /\ Len(s) >= Len(prefix)
    /\ \A n \in 1..Len(prefix) : s[n] = prefix[n]

\* options.nodeId.replaceAll(/-/g, ":")
replaceAll(s) == [n \in 1..Len(s) |-> IF s[n] = "-" THEN ":" ELSE s[n]]

\* Object.keys(obj), in property order
ObjectKeys(obj) == [n \in 1..Len(obj) |-> obj[n].id]

\* obj[key]: the property's value, or undefined
Lookup(obj, key) ==
    IF \E n \in 1..Len(obj) : obj[n].id = key
    THEN obj[CHOOSE n \in 1..Len(obj) : obj[n].id = key].component
    ELSE Undefined

\* Array.from(new Set(seq)): the first occurrence of each value, in order
RECURSIVE ArrayFromSet(_)
ArrayFromSet(seq) ==
    IF seq = <<>> THEN <<>>
    ELSE LET init == ArrayFromSet(SubSeq(seq, 1, Len(seq) - 1))
             last == seq[Len(seq)]
         IN  IF \E n \in 1..Len(init) : init[n] = last THEN init
             ELSE Append(init, last)

(***************************************************************************)
(* tree = defineTree(getChildren): depth-first pre-order search.           *)
(***************************************************************************)
getChildren(node) ==
    IF "children" \in DOMAIN node THEN node.children ELSE <<>>

\* The visiting order as it would be breadth first: the node, then its
\* children, then their children.
RECURSIVE levelOrder(_)
levelOrder(nodes) ==
    IF nodes = <<>> THEN <<>>
    ELSE LET RECURSIVE childrenOfAll(_)
             childrenOfAll(ns) ==
                 IF ns = <<>> THEN <<>>
                 ELSE getChildren(Head(ns)) \o childrenOfAll(Tail(ns))
         IN  nodes \o levelOrder(childrenOfAll(nodes))

breadthFirst(node) == levelOrder(<<node>>)

RECURSIVE preorder(_)
RECURSIVE preorderAll(_)
\* The nodes of the tree under node in visiting order: the node, then the
\* subtree of each child from left to right.
preorder(node) == <<node>> \o preorderAll(getChildren(node))

preorderAll(nodes) ==
    IF nodes = <<>> THEN <<>>
    ELSE preorder(Head(nodes)) \o preorderAll(Tail(nodes))

\* tree.find as it would be if it returned the last visited match.
treeFindLast(root, nodeId) ==
    LET hits == SelectSeq(preorder(root), LAMBDA node : node.id = nodeId)
    IN  IF hits = <<>> THEN Undefined ELSE hits[Len(hits)]

\* tree.find(root, (node) => node.id === nodeId): the first visited node
\* carrying the identifier, or undefined
treeFind(root, nodeId) ==
    LET hits == SelectSeq(preorder(root), LAMBDA node : node.id = nodeId)
    IN  IF hits = <<>> THEN Undefined ELSE Head(hits)

\* tree.findAll as it would be if it visited the tree breadth first.
treeFindAllBreadthFirst(root, type) ==
    SelectSeq(breadthFirst(root), LAMBDA node : node.type = type)

\* tree.findAll(root, (node) => node.type === type): every visited node of
\* the kind, in visiting order
treeFindAll(root, type) == SelectSeq(preorder(root), LAMBDA node : node.type = type)

(***************************************************************************)
(* Promise outcomes and errors.                                            *)
(***************************************************************************)
Fulfilled(v) == [status |-> "fulfilled", value |-> v]

Rejected(e) == [status |-> "rejected", reason |-> e]

Pending == [status |-> "pending"]

\* new Error(message)
Error(message) == [name |-> "Error", message |-> message]

\* The SyntaxError with which response.json() rejects on a body that is not JSON.
JsonSyntaxError == [name |-> "SyntaxError", message |-> "Unexpected token in JSON"]

\* The TypeError of reading .name of undefined.
NameOfUndefined ==
    [name |-> "TypeError", message |-> "Cannot read properties of undefined (reading 'name')"]

\* The TypeError of Object.keys(undefined).
KeysOfUndefined ==
    [name |-> "TypeError", message |-> "Cannot convert undefined or null to object"]

\* The text of a string held as a sequence of characters.
RECURSIVE Str(_)
Str(chars) == IF chars = <<>> THEN "" ELSE Head(chars) \o Str(Tail(chars))

(***************************************************************************)
(* FigmaService: headers and the three remote operations.  A request is    *)
(* the pair of arguments passed to fetch; a response is [ok, body].        *)
(***************************************************************************)
getPersonalAccessTokenHeaders(token) == [XFigmaToken |-> token]

getBearerTokenHeaders(token) ==
    [Authorization |-> <<"B", "e", "a", "r", "e", "r", " ">> \o token]

\* getHeaders as it would be without the test of the token's prefix.
getHeadersBearerOnly(token) == getBearerTokenHeaders(token)

getHeaders(token) ==
    IF startsWith(token, <<"f", "i", "g", "d">>)
    THEN getPersonalAccessTokenHeaders(token)
    ELSE getBearerTokenHeaders(token)

\* The error thrown on a non-success API response:
\*   const errorData = await response.json();
\*   throw new Error(errorData.err || fallback)
apiError(body, fallback) ==
    IF ~body.parses THEN JsonSyntaxError
    ELSE IF "err" \in DOMAIN body.json /\ body.json.err # ""
         THEN Error(body.json.err)
         ELSE Error(fallback)

fetchFileRequest(token, fileId, version) ==
    [kind |-> "file", fileId |-> fileId, version |-> version,
     headers |-> getHeaders(token)]

fetchFile(response) ==
    IF ~response.ok
    THEN Rejected(apiError(response.body, "Failed to fetch Figma file"))
    ELSE Fulfilled(response.body)

\* The images request as it would be if it were sent to the files endpoint.
fetchComponentSVGsRequestToFiles(token, fileId, componentIds, version) ==
    [kind |-> "file", fileId |-> fileId, ids |-> componentIds,
     format |-> "svg", version |-> version, headers |-> getHeaders(token)]

fetchComponentSVGsRequest(token, fileId, componentIds, version) ==
    [kind |-> "images", fileId |-> fileId, ids |-> componentIds,
     format |-> "svg", version |-> version, headers |-> getHeaders(token)]

\* fetchComponentSVGs as it would be if a non-success response were answered
\* with an empty images map.
fetchComponentSVGsLenient(response) ==
    IF ~response.ok THEN Fulfilled(<<>>) ELSE Fulfilled(response.body.images)

fetchComponentSVGs(response) ==
    IF ~response.ok
    THEN Rejected(apiError(response.body, "Failed to fetch component SVGs"))
    ELSE Fulfilled(response.body.images)

fetchSVGContentRequest(url) == [kind |-> "svg", url |-> url]

fetchSVGContent(response) ==
    IF ~response.ok
    THEN Rejected(Error("Failed to fetch SVG content"))
    ELSE Fulfilled(response.body)

(***************************************************************************)
(* Remote answers the collaborator may give.                               *)
(***************************************************************************)
Null == [null |-> TRUE]

\* The signed URL the images endpoint hands out for a component identifier.
UrlOf(componentId) == [origin |-> "https://cdn", path |-> componentId]

\* The SVG text served at a signed URL.
SvgTextAt(url) == "<svg>" \o Str(url.path)

Range(seq) == { seq[n] : n \in 1..Len(seq) }

FileResponses ==
    { [ok |-> TRUE, body |-> snapshot] : snapshot \in FileSnapshots }
      \cup { [ok |-> FALSE, body |-> b] : b \in ErrorBodies }

\* An images map gives each requested identifier a URL, null, or no entry.
ImagesMaps(componentIds) ==
    UNION { { [c \in withEntry |-> IF c \in rendered THEN UrlOf(c) ELSE Null] :
                rendered \in SUBSET withEntry } :
            withEntry \in SUBSET Range(componentIds) }

ImagesResponses(componentIds) ==
    { [ok |-> TRUE, body |-> [images |-> m]] : m \in ImagesMaps(componentIds) }
      \cup { [ok |-> FALSE, body |-> b] : b \in ErrorBodies }

\* The rendering host serves the SVG text (ok) or answers 404.
SvgResponseTo(url, ok) ==
    IF ok THEN [ok |-> TRUE, body |-> SvgTextAt(url)]
    ELSE [ok |-> FALSE, body |-> "Not Found"]

(***************************************************************************)
(* FigmaService.import, between its awaits.                                *)
(***************************************************************************)
\* data.components || {}
componentsOrEmpty(data) ==
    IF "components" \in DOMAIN data THEN data.components ELSE <<>>

\* The test as it would be without the "|| {}": a missing registry is not
\* taken for an empty one.
hasNoComponentEntriesStrict(data) ==
    "components" \in DOMAIN data /\ Len(data.components) = 0

\* Object.entries(data.components || {}).length === 0
hasNoComponentEntries(data) == Len(componentsOrEmpty(data)) = 0

\* `Node with id ${options.nodeId} not found`
nodeNotFound(nodeId) == Error("Node with id " \o Str(nodeId) \o " not found")

\* The resolution as it would be if a nodeId that is not found were treated
\* like no nodeId.
resolveComponentIdsOrAll(data, optNodeId) ==
    IF "components" \notin DOMAIN data THEN Rejected(KeysOfUndefined)
    ELSE LET nodeId == replaceAll(optNodeId)
             node == treeFind(data.document, nodeId)
         IN  IF optNodeId # <<>> /\ node # Undefined
             THEN LET descendantComponents ==
                          treeFindAll(node, "COMPONENT")
                  IN  Fulfilled(ArrayFromSet([n \in 1..Len(descendantComponents) |->
                                                 descendantComponents[n].id]))
             ELSE Fulfilled(ObjectKeys(data.components))

\* The component identifiers to export: every key of the registry, or, when a
\* nodeId is given, the identifiers of the COMPONENT nodes under that node.
resolveComponentIds(data, optNodeId) ==
    IF "components" \notin DOMAIN data THEN Rejected(KeysOfUndefined)
    ELSE IF optNodeId # <<>>
         THEN LET nodeId == replaceAll(optNodeId)
                  node == treeFind(data.document, nodeId)
              IN  IF node = Undefined THEN Rejected(nodeNotFound(optNodeId))
                  ELSE LET descendantComponents ==
                               treeFindAll(node, "COMPONENT")
                           descendantComponentIds ==
                               [n \in 1..Len(descendantComponents) |->
                                   descendantComponents[n].id]
                       IN  Fulfilled(ArrayFromSet(descendantComponentIds))
         ELSE Fulfilled(ObjectKeys(data.components))

\* svgUrls[componentId]
urlFor(svgUrls, componentId) ==
    IF componentId \in DOMAIN svgUrls THEN svgUrls[componentId] ELSE Undefined

\* !svgUrl
isFalsy(svgUrl) == svgUrl \in {Undefined, Null}

\* componentIds.flatMap(...): the components that have a URL, in order; the
\* warning for a component without URL reads component.name.
RECURSIVE componentsWithUrlsOf(_, _, _)
componentsWithUrlsOf(componentIds, svgUrls, components) ==
    IF componentIds = <<>> THEN Fulfilled(<<>>)
    ELSE LET componentId == Head(componentIds)
             svgUrl == urlFor(svgUrls, componentId)
             component == Lookup(components, componentId)
         IN  IF isFalsy(svgUrl) /\ component = Undefined
             THEN Rejected(NameOfUndefined)
             ELSE LET rest == componentsWithUrlsOf(Tail(componentIds), svgUrls, components)
                  IN  IF rest.status = "rejected" THEN rest
                      ELSE IF isFalsy(svgUrl) THEN rest
                      ELSE Fulfilled(<<[id |-> componentId, component |-> component,
                                        url |-> svgUrl]>> \o rest.value)

\* componentsWithUrls.map(async ...): each callback logs component.name and
\* then starts its fetch; firstReq is the index its first request will get.
RECURSIVE startFetches(_, _)
startFetches(withUrls, firstReq) ==
    IF withUrls = <<>> THEN <<>>
    ELSE IF Head(withUrls).component = Undefined
         THEN <<[promise |-> Rejected(NameOfUndefined), req |-> 0]>>
                \o startFetches(Tail(withUrls), firstReq)
         ELSE <<[promise |-> Pending, req |-> firstReq]>>
                \o startFetches(Tail(withUrls), firstReq + 1)

\* The requests those callbacks issue, in order.
svgRequestsOf(withUrls) ==
    LET started == SelectSeq(withUrls, LAMBDA w : w.component # Undefined)
    IN  [n \in 1..Len(started) |-> fetchSVGContentRequest(started[n].url)]

\* The callback's entry as it would be if the key were the bare name.
svgFileEntryBareName(withUrl, svgString) ==
    <<withUrl.component.name, [type |-> "file", content |-> svgString]>>

\* What the callback of a component returns once its SVG text is there.
svgFileEntry(withUrl, svgString) ==
    <<withUrl.component.name \o ".svg", [type |-> "file", content |-> svgString]>>

\* Promise.all as it would be if rejected promises were left out of the
\* outcome instead of rejecting it.
PromiseAllSkippingRejected(promises) ==
    IF \E n \in 1..Len(promises) : promises[n].status = "pending" THEN Pending
    ELSE LET kept == SelectSeq(promises, LAMBDA q : q.status = "fulfilled")
         IN  Fulfilled([n \in 1..Len(kept) |-> kept[n].value])

\* Promise.all as it would be if it settled with the first promise to settle.
PromiseAllFirstSettled(promises) ==
    IF \E n \in 1..Len(promises) : promises[n].status = "rejected"
    THEN Rejected(promises[CHOOSE n \in 1..Len(promises) :
                               promises[n].status = "rejected"].reason)
    ELSE IF \A n \in 1..Len(promises) : promises[n].status = "pending"
         THEN IF promises = <<>> THEN Fulfilled(<<>>) ELSE Pending
         ELSE LET kept == SelectSeq(promises, LAMBDA q : q.status = "fulfilled")
              IN  Fulfilled([n \in 1..Len(kept) |-> kept[n].value])

\* Promise.all as it would be if it settled only on the settling of one of
\* its promises, and so never for an empty list.
PromiseAllNeverIfEmpty(promises) ==
    IF \E n \in 1..Len(promises) : promises[n].status = "rejected"
    THEN Rejected(promises[CHOOSE n \in 1..Len(promises) :
                               promises[n].status = "rejected"].reason)
    ELSE IF promises # <<>> /\ \A n \in 1..Len(promises) : promises[n].status = "fulfilled"
         THEN Fulfilled([n \in 1..Len(promises) |-> promises[n].value])
         ELSE Pending

\* Promise.all(promises)
PromiseAll(promises) ==
    IF \E n \in 1..Len(promises) : promises[n].status = "rejected"
    THEN Rejected(promises[CHOOSE n \in 1..Len(promises) :
                      /\ promises[n].status = "rejected"
                      /\ \A m \in 1..(n - 1) : promises[m].status # "rejected"].reason)
    ELSE IF \A n \in 1..Len(promises) : promises[n].status = "fulfilled"
         THEN Fulfilled([n \in 1..Len(promises) |-> promises[n].value])
         ELSE Pending

\* Object.fromEntries as it would be if the first entry of a key were kept.
RECURSIVE ObjectFromEntriesFirstWins(_)
ObjectFromEntriesFirstWins(entries) ==
    IF entries = <<>> THEN <<>>
    ELSE (Head(entries)[1] :> Head(entries)[2])
           @@ ObjectFromEntriesFirstWins(Tail(entries))

\* Object.fromEntries(entries): a later entry replaces an earlier one.
RECURSIVE ObjectFromEntries(_)
ObjectFromEntries(entries) ==
    IF entries = <<>> THEN <<>>
    ELSE LET last == entries[Len(entries)]
         IN  (last[1] :> last[2])
               @@ ObjectFromEntries(SubSeq(entries, 1, Len(entries) - 1))

\* main's checks as they would be without the token check.
configErrorFileIdOnly(args) ==
    IF args.fileId = <<>> THEN Error("File ID is required") ELSE NoError

\* main's checks of its inputs
configError(args) ==
    IF args.fileId = <<>> THEN Error("File ID is required")
    ELSE IF args.FIGMA_TOKEN = <<>> THEN Error("Figma token is required")
    ELSE NoError

(***************************************************************************)
(* State of one invocation of main.                                        *)
(***************************************************************************)
VARIABLES
    pc,                 \* where the invocation stands: "idle", "fetchFile",
                        \* "fetchImages", "fetchSVGs", "done" or "failed"
    inputs,             \* the argument of main
    options,            \* FigmaService.options, once the service is constructed
    data,               \* import's data: the fetched file
    componentIds,       \* import's componentIds
    svgUrls,            \* import's svgUrls: the fetched images map
    componentsWithUrls, \* import's componentsWithUrls
    svgTasks,           \* the promises handed to Promise.all, each with the
                        \* index of its request (0: it issued none)
    requests,           \* every call of fetch so far, in order
    responses,          \* the response to each request, NoResponse while in flight
    result,             \* the mapping main returned
    error,              \* the error main threw
    arrived,            \* the indexes of the answered requests, in the order in
                        \* which their responses arrived
    earlier             \* the requests, responses, arrivals and mapping of an
                        \* earlier call of import that returned, NoEarlier
                        \* while import is in its first call

vars == <<pc, inputs, options, data, componentIds, svgUrls, componentsWithUrls,
          svgTasks, requests, responses, result, error, arrived, earlier>>

Init ==
    /\ pc = "idle"
    /\ inputs \in [FIGMA_TOKEN : Tokens, fileId : FileIds,
                   nodeId : NodeIdInputs, version : Versions]
    /\ options = Undefined
    /\ data = NoData
    /\ componentIds = <<>>
    /\ svgUrls = <<>>
    /\ componentsWithUrls = <<>>
    /\ svgTasks = <<>>
    /\ requests = <<>>
    /\ responses = <<>>
    /\ result = NoResult
    /\ error = NoError
    /\ arrived = <<>>
    /\ earlier = NoEarlier

\* import (and with it main) throws e.
Throw(e) ==
    /\ pc' = "failed"
    /\ error' = e
    /\ UNCHANGED result

\* import (and with it main) returns files.
Return(files) ==
    /\ pc' = "done"
    /\ result' = files
    /\ UNCHANGED error

\* main up to import's first await: the checks, the service, the file request.
main ==
    /\ pc = "idle"
    /\ IF configError(inputs) # NoError
       THEN /\ Throw(configError(inputs))
            /\ UNCHANGED <<options, requests, responses>>
       ELSE /\ options' = [token |-> inputs.FIGMA_TOKEN]
            /\ requests' = <<fetchFileRequest(inputs.FIGMA_TOKEN, inputs.fileId,
                                              inputs.version)>>
            /\ responses' = <<NoResponse>>
            /\ pc' = "fetchFile"
            /\ UNCHANGED <<result, error>>
    /\ UNCHANGED <<inputs, data, componentIds, svgUrls, componentsWithUrls, svgTasks,
                   arrived, earlier>>

\* The file response arrives: import runs to its next await, return or throw.
FileResponse(response) ==
    /\ pc = "fetchFile"
    /\ LET fetched == fetchFile(response)
           answered == [responses EXCEPT ![1] = response]
       IN  IF fetched.status = "rejected"
           THEN /\ Throw(fetched.reason)
                /\ responses' = answered
                /\ UNCHANGED <<data, componentIds, requests>>
           ELSE /\ data' = fetched.value
                /\ IF hasNoComponentEntries(fetched.value)
                   THEN /\ Return(<<>>)
                        /\ responses' = answered
                        /\ UNCHANGED <<componentIds, requests>>
                   ELSE LET resolved == resolveComponentIds(fetched.value, inputs.nodeId)
                        IN  IF resolved.status = "rejected"
                            THEN /\ Throw(resolved.reason)
                                 /\ responses' = answered
                                 /\ UNCHANGED <<componentIds, requests>>
                            ELSE /\ componentIds' = resolved.value
                                 /\ requests' =
                                      Append(requests,
                                             fetchComponentSVGsRequest(
                                                 options.token, inputs.fileId,
                                                 resolved.value, inputs.version))
                                 /\ responses' = Append(answered, NoResponse)
                                 /\ pc' = "fetchImages"
                                 /\ UNCHANGED <<result, error>>
    /\ arrived' = Append(arrived, 1)
    /\ UNCHANGED <<inputs, options, svgUrls, componentsWithUrls, svgTasks, earlier>>

\* The continuation as it would be if the entries were taken in the order
\* in which the fetches completed rather than in the order of the tasks.
AwaitAllInArrivalOrder(tasks) ==
    LET all == PromiseAll([n \in 1..Len(tasks) |-> tasks[n].promise])
        order == SelectSeq(arrived', LAMBDA r : \E n \in 1..Len(tasks) : tasks[n].req = r)
        taskOf(r) == CHOOSE n \in 1..Len(tasks) : tasks[n].req = r
    IN  IF all.status = "rejected" THEN Throw(all.reason)
        ELSE IF all.status = "fulfilled"
             THEN Return(ObjectFromEntries(
                      [k \in 1..Len(order) |-> tasks[taskOf(order[k])].promise.value]))
        ELSE /\ pc' = "fetchSVGs"
             /\ UNCHANGED <<result, error>>

\* Promise.all settles (or not) and import continues accordingly.
AwaitAll(tasks) ==
    LET all == PromiseAll([n \in 1..Len(tasks) |-> tasks[n].promise])
    IN  IF all.status = "rejected" THEN Throw(all.reason)
        ELSE IF all.status = "fulfilled" THEN Return(ObjectFromEntries(all.value))
        ELSE /\ pc' = "fetchSVGs"
             /\ UNCHANGED <<result, error>>

\* The images response arrives: import pairs components with URLs and starts
\* one SVG fetch per pair, then awaits them all.
ImagesResponse(response) ==
    /\ pc = "fetchImages"
    /\ arrived' = Append(arrived, 2)
    /\ LET fetched == fetchComponentSVGs(response)
           answered == [responses EXCEPT ![2] = response]
       IN  IF fetched.status = "rejected"
           THEN /\ Throw(fetched.reason)
                /\ responses' = answered
                /\ UNCHANGED <<svgUrls, componentsWithUrls, svgTasks, requests>>
           ELSE /\ svgUrls' = fetched.value
                /\ LET withUrls == componentsWithUrlsOf(componentIds, fetched.value,
                                                        data.components)
                   IN  IF withUrls.status = "rejected"
                       THEN /\ Throw(withUrls.reason)
                            /\ responses' = answered
                            /\ UNCHANGED <<componentsWithUrls, svgTasks, requests>>
                       ELSE LET issued == svgRequestsOf(withUrls.value)
                                tasks == startFetches(withUrls.value, Len(requests) + 1)
                            IN  /\ componentsWithUrls' = withUrls.value
                                /\ svgTasks' = tasks
                                /\ requests' = requests \o issued
                                /\ responses' =
                                     answered \o [n \in 1..Len(issued) |-> NoResponse]
                                /\ AwaitAll(tasks)
    /\ UNCHANGED <<inputs, options, data, componentIds, earlier>>

\* The response to the SVG fetch of task n arrives: the task's callback
\* finishes, and import continues if Promise.all settles and it still waits.
SvgResponse(n, ok) ==
    /\ n \in 1..Len(svgTasks)
    /\ svgTasks[n].promise.status = "pending"
    /\ arrived' = Append(arrived, svgTasks[n].req)
    /\ LET response == SvgResponseTo(requests[svgTasks[n].req].url, ok)
           fetched == fetchSVGContent(response)
           settled ==
               IF fetched.status = "rejected" THEN fetched
               ELSE Fulfilled(svgFileEntry(componentsWithUrls[n], fetched.value))
           tasks == [svgTasks EXCEPT ![n].promise = settled]
       IN  /\ svgTasks' = tasks
           /\ responses' = [responses EXCEPT ![svgTasks[n].req] = response]
           /\ IF pc = "fetchSVGs"
              THEN AwaitAll(tasks)
              ELSE UNCHANGED <<pc, result, error>>
    /\ UNCHANGED <<inputs, options, data, componentIds, svgUrls, componentsWithUrls,
                   requests, earlier>>

Next ==
    \/ main
    \/ pc = "fetchFile" /\ \E response \in FileResponses : FileResponse(response)
    \/ pc = "fetchImages" /\
           \E response \in ImagesResponses(componentIds) : ImagesResponse(response)
    \/ \E n \in 1..Len(svgTasks) : \E ok \in BOOLEAN : SvgResponse(n, ok)

Spec == Init /\ [][Next]_vars

\* The invocations that ask for no version and whose token, if any, is not a
\* personal access token: the two only choose the version parameter and the
\* header of the two API requests.
PlainInit ==
    /\ Init
    /\ inputs.FIGMA_TOKEN \in {<<>>, <<"a", "b", "c">>}
    /\ inputs.version = <<>>

(***************************************************************************)
(* Two calls of import on one service.  After import has returned, the     *)
(* caller calls it again; the remote state has not changed, so a request   *)
(* the earlier call made gets the response it got then.  The fetches of    *)
(* either call complete in any order.                                      *)
(***************************************************************************)
\* The caller calls import again: import starts over with the file request.
importAgain ==
    /\ pc = "done"
    /\ earlier = NoEarlier
    /\ earlier' = [requests |-> requests, responses |-> responses,
                   arrived |-> arrived, result |-> result]
    /\ data' = NoData
    /\ componentIds' = <<>>
    /\ svgUrls' = <<>>
    /\ componentsWithUrls' = <<>>
    /\ svgTasks' = <<>>
    /\ requests' = <<fetchFileRequest(options.token, inputs.fileId, inputs.version)>>
    /\ responses' = <<NoResponse>>
    /\ arrived' = <<>>
    /\ result' = NoResult
    /\ pc' = "fetchFile"
    /\ UNCHANGED <<inputs, options, error>>

\* The remote state is unchanged: response is what the earlier call, if
\* there was one, received for the request that request n repeats.
RemoteUnchanged(n, response) ==
    IF earlier = NoEarlier THEN TRUE
    ELSE \A m \in 1..Len(earlier.requests) :
             earlier.requests[m] = requests[n] => earlier.responses[m] = response

TwiceNext ==
    \/ main
    \/ importAgain
    \/ pc = "fetchFile" /\
           \E response \in FileResponses :
               RemoteUnchanged(1, response) /\ FileResponse(response)
    \/ pc = "fetchImages" /\
           \E response \in ImagesResponses(componentIds) :
               RemoteUnchanged(2, response) /\ ImagesResponse(response)
    \/ \E n \in 1..Len(svgTasks) : \E ok \in BOOLEAN :
           /\ svgTasks[n].promise.status = "pending"
           /\ RemoteUnchanged(svgTasks[n].req,
                              SvgResponseTo(requests[svgTasks[n].req].url, ok))
           /\ SvgResponse(n, ok)

TwiceSpec == PlainInit /\ [][TwiceNext]_vars

(***************************************************************************)
(* The program where main gets to run and every request that is in flight  *)
(* eventually receives a response.                                         *)
(***************************************************************************)
FairSpec ==
    /\ PlainInit
    /\ [][Next]_vars
    /\ WF_vars(main)
    /\ WF_vars(\E response \in FileResponses : FileResponse(response))
    /\ WF_vars(\E response \in ImagesResponses(componentIds) : ImagesResponse(response))
    /\ \A n \in 1..Cardinality(Ids) : WF_vars(\E ok \in BOOLEAN : SvgResponse(n, ok))

(***************************************************************************)
(* The same program on larger documents, for the properties of the tree    *)
(* search: one token, one version, registries of two components, an images *)
(* map with a URL for every requested identifier and SVG fetches that      *)
(* succeed.                                                                *)
(***************************************************************************)
\* Largest number of nodes below the document root in these documents.
MaxTreeNodes == 3

TreeDocuments ==
    { [id |-> RootId, type |-> "DOCUMENT", children |-> f] :
        f \in UNION { ForestsOfSize(m) : m \in 0..MaxTreeNodes } }

TreeFileResponses ==
    { [ok |-> TRUE, body |-> [document |-> d, components |-> r]] :
        d \in TreeDocuments, r \in { q \in Registries : Len(q) = 2 } }

TreeImagesResponse(ids) ==
    [ok |-> TRUE, body |-> [images |-> [c \in Range(ids) |-> UrlOf(c)]]]

TreeInit ==
    /\ Init
    /\ inputs.FIGMA_TOKEN = <<"a", "b", "c">>
    /\ inputs.fileId = <<"a", "b", "c">>
    /\ inputs.version = <<>>

TreeNext ==
    \/ main
    \/ pc = "fetchFile" /\ \E response \in TreeFileResponses : FileResponse(response)
    \/ ImagesResponse(TreeImagesResponse(componentIds))
    \/ \E n \in 1..Len(svgTasks) : SvgResponse(n, TRUE)

TreeSpec == TreeInit /\ [][TreeNext]_vars

(***************************************************************************)
(* Vocabulary of the properties.                                           *)
(***************************************************************************)
\* The identifiers carried by the nodes of the tree under node.
RECURSIVE NodeIdsIn(_)
NodeIdsIn(node) ==
    {node.id} \cup UNION { NodeIdsIn(node.children[n]) : n \in 1..Len(node.children) }

\* The nodeId with every hyphen turned into a colon.
HyphensToColons(s) == [n \in DOMAIN s |-> IF s[n] = "-" THEN ":" ELSE s[n]]

\* The file request was answered successfully: import holds a file snapshot.
FileFetched == data # NoData

\* The fetched snapshot has at least one registered component.
RegistryNonEmpty ==
    /\ FileFetched
    /\ "components" \in DOMAIN data
    /\ data.components # <<>>

\* Request number n has been answered, and not successfully.
AnsweredNotOk(n) ==
    /\ n \in 1..Len(responses)
    /\ responses[n] # NoResponse
    /\ ~responses[n].ok

\* Request number n has been answered successfully.
AnsweredOk(n) ==
    /\ n \in 1..Len(responses)
    /\ responses[n] # NoResponse
    /\ responses[n].ok

RequestsOfKind(kind) == { n \in 1..Len(requests) : requests[n].kind = kind }

\* The images request was answered successfully: import holds an images map.
ImagesFetched == \E n \in RequestsOfKind("images") : AnsweredOk(n)

\* The images map has a URL for component identifier c.
HasUrl(c) == c \in DOMAIN svgUrls /\ svgUrls[c] # Null

\* The resolved component identifiers.
Resolved == Range(componentIds)

\* An SVG-content request for the URL of component identifier c was issued.
SvgRequested(c) == \E n \in RequestsOfKind("svg") : requests[n].url = UrlOf(c)

\* The SVG-content fetch of component identifier c succeeded.
SvgFetched(c) ==
    \E n \in RequestsOfKind("svg") : requests[n].url = UrlOf(c) /\ AnsweredOk(n)

SvgFetchFailed == Error("Failed to fetch SVG content")

C2_KeysAreTheFetchedComponents ==
    pc = "done" =>
        DOMAIN result =
            { Lookup(data.components, c).name \o ".svg" :
                c \in { r \in Resolved : HasUrl(r) /\ SvgFetched(r) } }

\* import returned a non-empty mapping although one resolved component had
\* no URL.
C2_Witness ==
    /\ pc = "done"
    /\ DOMAIN result # {}
    /\ \E c \in Resolved : ~HasUrl(c)

(***************************************************************************)
(* C3.  As claimed: for every requested nodeId that no node of the fetched *)
(* document carries, whatever the registry, import fails with an error     *)
(* naming the nodeId and issues neither the images request nor an          *)
(* SVG-content request.                                                    *)
(***************************************************************************)
C3_UnknownNodeIdFailsWhateverRegistry ==
    (/\ FileFetched
     /\ inputs.nodeId # <<>>
     /\ inputs.nodeId \notin NodeIdsIn(data.document))
        => /\ pc = "failed"
           /\ error = Error("Node with id " \o Str(inputs.nodeId) \o " not found")
           /\ RequestsOfKind("images") \cup RequestsOfKind("svg") = {}

(***************************************************************************)
(* C3, amended.  For every non-empty nodeId whose form with hyphens turned *)
(* into colons is carried by no node of the fetched document, and every    *)
(* fetched snapshot whose registry is not empty, import fails with an      *)
(* error naming the nodeId as given and issues neither the images request  *)
(* nor an SVG-content request.                                             *)
(***************************************************************************)
C3_UnknownNodeIdFails ==
    (/\ RegistryNonEmpty
     /\ inputs.nodeId # <<>>
     /\ HyphensToColons(inputs.nodeId) \notin NodeIdsIn(data.document))
        => /\ pc = "failed"
           /\ error = Error("Node with id " \o Str(inputs.nodeId) \o " not found")
           /\ RequestsOfKind("images") \cup RequestsOfKind("svg") = {}

\* import failed on a nodeId that is written with a hyphen, while the
\* document has a node carrying exactly that text.
C3_Witness ==
    /\ RegistryNonEmpty
    /\ inputs.nodeId = IdB
    /\ IdB \in NodeIdsIn(data.document)
    /\ pc = "failed"
    /\ error = Error("Node with id 1-2 not found")

(***************************************************************************)
(* C4.  For every fetched snapshot whose registry is empty or absent,      *)
(* import returns the empty mapping and the file request is the only       *)
(* request made.                                                           *)
(***************************************************************************)
C4_EmptyRegistryReturnsEmpty ==
    (FileFetched /\ ~RegistryNonEmpty)
        => /\ pc = "done"
           /\ DOMAIN result = {}
           /\ Len(requests) = 1
           /\ requests[1].kind = "file"

\* The snapshot has no components field at all, a nodeId was given, and
\* import returned.
C4_Witness ==
    /\ FileFetched
    /\ "components" \notin DOMAIN data
    /\ inputs.nodeId # <<>>
    /\ pc = "done"

(***************************************************************************)
(* C5.  As claimed: every resolved component identifier is a key of the    *)
(* registry of the fetched snapshot, so its registry lookup is never       *)
(* undefined.                                                              *)
(***************************************************************************)
C5_ResolvedIdsAreRegistryKeys ==
    \A c \in Resolved : Lookup(data.components, c) # Undefined

(***************************************************************************)
(* C6.  As claimed: a resolved component without URL in the images map is  *)
(* skipped (no SVG-content request for it) and does not make import fail:  *)
(* with such a component, import fails only if an SVG-content fetch was    *)
(* answered with a non-success response.                                   *)
(***************************************************************************)
C6_MissingUrlIsNotFatal ==
    (ImagesFetched /\ \E c \in Resolved : ~HasUrl(c))
        => /\ \A c \in Resolved : ~HasUrl(c) => ~SvgRequested(c)
           /\ pc = "failed" => \E n \in RequestsOfKind("svg") : AnsweredNotOk(n)

(***************************************************************************)
(* C7.  As claimed: when the requested subtree root is found and no        *)
(* component is resolved under it, import returns the empty mapping        *)
(* without issuing the images request or an SVG-content request.           *)
(***************************************************************************)
C7_EmptySubtreeReturnsEarly ==
    (/\ RegistryNonEmpty
     /\ inputs.nodeId # <<>>
     /\ HyphensToColons(inputs.nodeId) \in NodeIdsIn(data.document)
     /\ componentIds = <<>>)
        => /\ pc = "done"
           /\ DOMAIN result = {}
           /\ RequestsOfKind("images") \cup RequestsOfKind("svg") = {}

(***************************************************************************)
(* C8.  A non-success response to the file request makes import fail with  *)
(* no images request and no SVG-content request issued; a non-success      *)
(* response to the images request makes import fail with no SVG-content    *)
(* request issued; in neither case does import return a mapping.           *)
(***************************************************************************)
C8_ApiFailuresAreFatal ==
    /\ \A n \in RequestsOfKind("file") :
           AnsweredNotOk(n) =>
               /\ pc = "failed"
               /\ result = NoResult
               /\ RequestsOfKind("images") \cup RequestsOfKind("svg") = {}
    /\ \A n \in RequestsOfKind("images") :
           AnsweredNotOk(n) =>
               /\ pc = "failed"
               /\ result = NoResult
               /\ RequestsOfKind("svg") = {}

\* The images request of two resolved components was answered with a
\* non-success response and import failed.
C8_Witness ==
    /\ pc = "failed"
    /\ Len(componentIds) = 2
    /\ \E n \in RequestsOfKind("images") : AnsweredNotOk(n)

\* The text of the err field of an error body, "" when there is none.
ReportedErr(body) ==
    IF body.parses /\ "err" \in DOMAIN body.json THEN body.json.err ELSE ""

(***************************************************************************)
(* C9.  As claimed: on a non-success response to the file request or to    *)
(* the images request, the error carries the err text of the body when     *)
(* the body parses and has a non-empty err, and otherwise the fallback     *)
(* message of the operation; no other error can result.                    *)
(***************************************************************************)
C9_ApiErrorMessage ==
    \A n \in RequestsOfKind("file") \cup RequestsOfKind("images") :
        AnsweredNotOk(n) =>
            /\ pc = "failed"
            /\ error.name = "Error"
            /\ error.message =
                 IF ReportedErr(responses[n].body) # ""
                 THEN ReportedErr(responses[n].body)
                 ELSE IF requests[n].kind = "file"
                      THEN "Failed to fetch Figma file"
                      ELSE "Failed to fetch component SVGs"

(***************************************************************************)
(* C10.  When main is invoked with an empty or missing fileId or token,    *)
(* it fails with an error and no remote request is ever issued.            *)
(***************************************************************************)
C10_ConfigErrorsBeforeNetwork ==
    (inputs.fileId = <<>> \/ inputs.FIGMA_TOKEN = <<>>)
        => /\ requests = <<>>
           /\ pc # "idle" => (pc = "failed" /\ error.name = "Error")

\* main failed on a missing token although the fileId was given.
C10_Witness ==
    /\ pc = "failed"
    /\ inputs.fileId # <<>>
    /\ inputs.FIGMA_TOKEN = <<>>
    /\ error = Error("Figma token is required")

\* The token begins with the four characters "figd".
IsPersonalAccessToken(token) ==
    Len(token) >= 4 /\ SubSeq(token, 1, 4) = <<"f", "i", "g", "d">>

(***************************************************************************)
(* C12.  Every file request and every images request carries the token     *)
(* under exactly one scheme: the X-Figma-Token header alone iff the token  *)
(* begins with "figd", the Bearer Authorization header alone otherwise.    *)
(* Every SVG-content request has no headers and its URL is the signed URL  *)
(* of a component, so it never carries the token.                          *)
(***************************************************************************)
C12_HeaderSchemeAndConfinement ==
    \A n \in 1..Len(requests) :
        IF requests[n].kind \in {"file", "images"}
        THEN IF IsPersonalAccessToken(inputs.FIGMA_TOKEN)
             THEN /\ DOMAIN requests[n].headers = {"XFigmaToken"}
                  /\ requests[n].headers.XFigmaToken = inputs.FIGMA_TOKEN
             ELSE /\ DOMAIN requests[n].headers = {"Authorization"}
                  /\ requests[n].headers.Authorization =
                       <<"B", "e", "a", "r", "e", "r", " ">> \o inputs.FIGMA_TOKEN
        ELSE /\ "headers" \notin DOMAIN requests[n]
             /\ DOMAIN requests[n] = {"kind", "url"}
             /\ \E c \in Resolved : requests[n].url = UrlOf(c)

\* With a "figd" token, all three kinds of request have been issued.
C12_Witness ==
    /\ IsPersonalAccessToken(inputs.FIGMA_TOKEN)
    /\ RequestsOfKind("file") # {}
    /\ RequestsOfKind("images") # {}
    /\ RequestsOfKind("svg") # {}

\* SVG-content request number n has not been answered yet.
InFlight(n) == n \in 1..Len(responses) /\ responses[n] = NoResponse

C14_StagesInSequence ==
    /\ \A n \in RequestsOfKind("images") :
           \E m \in RequestsOfKind("file") : m < n /\ AnsweredOk(m)
    /\ \A n \in RequestsOfKind("svg") :
           \E m \in RequestsOfKind("images") : m < n /\ AnsweredOk(m)
    /\ \A n, m \in 1..Len(requests) :
           (n # m /\ InFlight(n) /\ InFlight(m))
               => (requests[n].kind = "svg" /\ requests[m].kind = "svg")

\* Two SVG-content requests are in flight at the same time.
C14_Witness ==
    \E n, m \in RequestsOfKind("svg") : n # m /\ InFlight(n) /\ InFlight(m)

\* The positions, in resolved order, of the components that have a URL and
\* whose file is called key.
ExportedAs(key) ==
    { n \in 1..Len(componentIds) :
        /\ HasUrl(componentIds[n])
        /\ Lookup(data.components, componentIds[n]).name \o ".svg" = key }

(***************************************************************************)
(* C15.  When import returns, each filename of the mapping has the SVG     *)
(* text of the component that comes last in resolved order among the       *)
(* resolved components with a URL that share this filename, whatever the   *)
(* order in which the SVG-content fetches completed.                       *)
(***************************************************************************)
C15_LastInResolvedOrderWins ==
    pc = "done" =>
        \A key \in DOMAIN result :
            /\ ExportedAs(key) # {}
            /\ LET last == CHOOSE n \in ExportedAs(key) :
                               \A m \in ExportedAs(key) : m <= n
               IN  result[key] =
                       [type |-> "file",
                        content |-> SvgTextAt(UrlOf(componentIds[last]))]

\* import returned one file for two resolved components of the same name,
\* both with a URL.
C15_Witness ==
    /\ pc = "done"
    /\ Cardinality(DOMAIN result) = 1
    /\ \E key \in DOMAIN result : Cardinality(ExportedAs(key)) = 2

\* The SVG-content requests issued for the URL of component identifier c.
SvgRequestsFor(c) == { n \in RequestsOfKind("svg") : requests[n].url = UrlOf(c) }

(***************************************************************************)
(* C18.  As claimed: within one import call the file request is issued     *)
(* exactly once, the images request at most once, and the SVG-content      *)
(* request at most once per resolved identifier: exactly once for each     *)
(* resolved identifier that has a URL in the fetched images map, never for *)
(* one that has none.                                                      *)
(***************************************************************************)
C18_NoRetries ==
    options # Undefined =>
        /\ Cardinality(RequestsOfKind("file")) = 1
        /\ Cardinality(RequestsOfKind("images")) <= 1
        /\ \A n \in RequestsOfKind("svg") : \E c \in Resolved : n \in SvgRequestsFor(c)
        /\ \A c \in Resolved : Cardinality(SvgRequestsFor(c)) <= 1
        /\ ImagesFetched =>
               \A c \in Resolved :
                   Cardinality(SvgRequestsFor(c)) = IF HasUrl(c) THEN 1 ELSE 0

\* The same, where every resolved identifier is a registry key.
C18_NoRetriesOfRegistered == C5_ResolvedIdsAreRegistryKeys => C18_NoRetries

(***************************************************************************)
(* C19.  If every request issued eventually receives a response, main      *)
(* eventually completes, by returning a mapping or by failing, and the     *)
(* number of requests it issues never exceeds two plus the number of       *)
(* resolved component identifiers.                                         *)
(***************************************************************************)
C19_ImportTerminates ==
    /\ <>(pc \in {"done", "failed"})
    /\ [](Len(requests) <= 2 + Len(componentIds))

\* import has failed, it had issued four requests and each got its response.
C19_Witness ==
    /\ pc = "failed"
    /\ Len(requests) = 4
    /\ \A n \in 1..Len(requests) : ~InFlight(n)

(***************************************************************************)
(* Positions in a tree: a node is named by its path, the sequence of child *)
(* indexes leading to it from the root of the tree.                        *)
(***************************************************************************)
RECURSIVE PathsIn(_)
PathsIn(node) ==
    {<<>>} \cup UNION { { <<n>> \o p : p \in PathsIn(node.children[n]) } :
                        n \in 1..Len(node.children) }

RECURSIVE NodeAt(_, _)
NodeAt(node, path) ==
    IF path = <<>> THEN node ELSE NodeAt(node.children[Head(path)], Tail(path))

\* In depth-first pre-order the node at p is visited before the node at q:
\* p is a proper prefix of q, or p branches off to the left of q.
VisitedBefore(p, q) ==
    \E k \in 1..Len(q) :
        /\ \A j \in 1..(k - 1) : j <= Len(p) /\ p[j] = q[j]
        /\ \/ Len(p) = k - 1
           \/ Len(p) >= k /\ p[k] < q[k]

\* The paths of the document's nodes that carry the requested nodeId with
\* its hyphens turned into colons.
MatchingPaths ==
    { p \in PathsIn(data.document) :
        NodeAt(data.document, p).id = HyphensToColons(inputs.nodeId) }

\* The first of them in depth-first pre-order.
FirstMatchingPath ==
    CHOOSE p \in MatchingPaths : \A q \in MatchingPaths : q # p => VisitedBefore(p, q)

\* A subtree root was requested and is found.
SubtreeRootFound ==
    /\ RegistryNonEmpty
    /\ inputs.nodeId # <<>>
    /\ MatchingPaths # {}

\* The paths, within the tree under top, of its nodes of kind COMPONENT.
ComponentPaths(top) == { p \in PathsIn(top) : NodeAt(top, p).type = "COMPONENT" }

\* The first path in pre-order, within the tree under top, of a COMPONENT
\* node carrying id.
FirstComponentPath(top, id) ==
    CHOOSE p \in ComponentPaths(top) :
        /\ NodeAt(top, p).id = id
        /\ \A q \in ComponentPaths(top) :
               (NodeAt(top, q).id = id /\ q # p) => VisitedBefore(p, q)

\* The identifier list of the images request.
RequestedIds == requests[CHOOSE n \in RequestsOfKind("images") : TRUE].ids

(***************************************************************************)
(* C16.  When a nodeId is given and its node is found, the identifier list *)
(* of the images request holds exactly the identifiers of the COMPONENT    *)
(* nodes of the subtree under that node (the node itself included), each   *)
(* once, in the depth-first pre-order of their first occurrences; every    *)
(* SVG-content request and every exported file is of one of them.          *)
(***************************************************************************)
C16_SubtreeScoping ==
    SubtreeRootFound =>
        LET top == NodeAt(data.document, FirstMatchingPath)
            inside == { NodeAt(top, p).id : p \in ComponentPaths(top) }
        IN  /\ RequestsOfKind("images") # {}
            /\ Range(RequestedIds) = inside
            /\ \A n, m \in 1..Len(RequestedIds) :
                   n < m =>
                       /\ RequestedIds[n] # RequestedIds[m]
                       /\ VisitedBefore(FirstComponentPath(top, RequestedIds[n]),
                                        FirstComponentPath(top, RequestedIds[m]))
            /\ \A n \in RequestsOfKind("svg") : \E c \in inside : requests[n].url = UrlOf(c)
            /\ pc = "done" =>
                   \A key \in DOMAIN result :
                       \E c \in inside : key = Lookup(data.components, c).name \o ".svg"

\* The subtree root is a node below the document root with one component
\* under it; a COMPONENT node of the registry lies outside the subtree, and
\* import has returned the one file of the component inside.
C16_Witness ==
    /\ SubtreeRootFound
    /\ FirstMatchingPath # <<>>
    /\ Len(data.components) = 2
    /\ \E p \in ComponentPaths(data.document) :
           /\ NodeAt(data.document, p).id = IdB
           /\ ~VisitedBefore(FirstMatchingPath, p)
    /\ RequestsOfKind("images") # {}
    /\ RequestedIds = <<IdA>>
    /\ pc = "done"
    /\ Cardinality(DOMAIN result) = 1

(***************************************************************************)
(* C17.  When a nodeId is given, the subtree root is the first node in     *)
(* depth-first pre-order over the whole document, the document root        *)
(* included, whose identifier equals the nodeId with every hyphen replaced *)
(* by a colon: the resolved identifiers are those of the COMPONENT nodes   *)
(* under that node, and import fails on the lookup iff there is no such    *)
(* node.  When no nodeId is given, the resolved identifiers are the keys   *)
(* of the registry.                                                        *)
(***************************************************************************)
C17_SubtreeRootLookup ==
    RegistryNonEmpty =>
        IF inputs.nodeId = <<>>
        THEN /\ pc # "failed"
             /\ componentIds = [n \in 1..Len(data.components) |-> data.components[n].id]
        ELSE IF MatchingPaths = {}
             THEN pc = "failed" /\ error.name = "Error" /\ componentIds = <<>>
             ELSE /\ error # Error("Node with id " \o Str(inputs.nodeId) \o " not found")
                  /\ LET top == NodeAt(data.document, FirstMatchingPath)
                     IN  Range(componentIds) =
                             { NodeAt(top, p).id : p \in ComponentPaths(top) }

\* Two nodes carry the requested identifier, written with a hyphen in the
\* nodeId, and only the second one has a component under it.
C17_Witness ==
    /\ SubtreeRootFound
    /\ inputs.nodeId = IdB
    /\ Cardinality(MatchingPaths) = 2
    /\ componentIds = <<>>
    /\ \E p \in MatchingPaths : ComponentPaths(NodeAt(data.document, p)) # {}

\* import has returned from a second call.
ReturnedTwice == earlier # NoEarlier /\ pc = "done"

(***************************************************************************)
(* C11.  A second call of import with the same inputs against an unchanged *)
(* remote state does not fail, and when it returns, its mapping has the    *)
(* key set of the earlier call's mapping and the same content under every  *)
(* key, in whatever order the SVG fetches of either call completed.        *)
(***************************************************************************)
C11_Idempotent ==
    earlier # NoEarlier =>
        /\ pc # "failed"
        /\ pc = "done" =>
               /\ DOMAIN result = DOMAIN earlier.result
               /\ \A key \in DOMAIN result : result[key] = earlier.result[key]

\* Both calls returned the files of two components, and the two SVG fetches
\* completed in one order in the earlier call and in the other order in the
\* second.
C11_Witness ==
    /\ ReturnedTwice
    /\ Len(componentsWithUrls) = 2
    /\ Len(arrived) = 4
    /\ Len(earlier.arrived) = 4
    /\ arrived[3] = earlier.arrived[4]
    /\ arrived[4] = earlier.arrived[3]

====
